---- MODULE Spec2Model ----
(***************************************************************************)
(* Model of the real-time session hub of backend/server.py:                *)
(* ConnectionManager (the presence registry and the broadcast loops) and   *)
(* websocket_endpoint (admission, relay loop, teardown).                   *)
(*                                                                         *)
(* Every connection is served by its own asyncio task.  A task runs        *)
(* without interruption between two awaits, so one action of the model is  *)
(* the code a task executes from one suspension point to the next.  The    *)
(* suspension points that matter to the registry are                       *)
(*    await websocket.send_text(...)     (ConnectionManager.broadcast)     *)
(*    await websocket.receive_text()     (the relay loop)                  *)
(* The awaits of the admission path (db.documents.find_one,                *)
(* websocket.accept) precede every access to the registry, so the code     *)
(* between them commutes with all other tasks and is folded into the       *)
(* action that admits the connection.                                      *)
(*                                                                         *)
(* The inner dictionaries are CPython dicts: an array of entries in        *)
(* insertion order in which a deletion leaves a hole, and an iterator      *)
(* (dictiter_iternextitem) that remembers its position, the size of the    *)
(* dict when it was created (di_used) and the number of items it still     *)
(* expects (len).  Dicts of at most five entries are never resized.        *)
(***************************************************************************)
EXTENDS Integers, Sequences, FiniteSets, TLC

\* ------------------------------------------------------------------ bounds
NConn == 3          \* connection attempts that get past the credential check
MaxRelay == 1       \* messages received from clients over a run
MaxRejected == 1    \* rejected admissions over a run
MaxFifo == 4        \* messages received from clients over a run of FifoSpec
NFifo == 2          \* connections admitted over a run of FifoSpec
NReq == 3           \* register requests over a run

Conns == 1..NConn

Requests == 1..NReq

\* ------------------------------------------------------- external services
Users == {"u1", "u2", "u3"}

\* db.documents: the documents that exist and their collaborators
documents == [d1 |-> {"u1", "u2", "u3"}, d2 |-> {"u1"}]

\* document identifiers a client may put in the path ("dX" does not exist)
DocIds == {"d1", "d2", "dX"}

\* credentials a client may present: none, an expired one, one with a bad
\* signature, a well-signed one whose payload lacks user_id/username, and
\* the token issued to each user
NoToken == "none"
Tokens == {NoToken, "expired", "garbage", "anon"} \cup Users

\* payloads a client may send; the first is well-formed JSON
Payloads == {"{\"op\":\"insert\"}", "hello"}

\* display names stored in the token payload
UserName(u) == IF u = "u1" THEN "ann" ELSE IF u = "u2" THEN "bob" ELSE "cat"

\* jwt.decode as used by decode_jwt_token: the payload of a token, or the
\* exception raised.  An expired token raises HTTPException(401), a
\* malformed one raises out of the handler list; both are Exceptions.
decode_jwt_token(token) ==
    IF token \in Users
      THEN [raised |-> FALSE, user_id |-> token, username |-> UserName(token)]
    ELSE IF token = "anon"
      THEN [raised |-> FALSE, user_id |-> "", username |-> ""]
    ELSE [raised |-> TRUE, user_id |-> "", username |-> ""]

\* json.loads(data): TRUE when data parses, FALSE when it raises ValueError
json_loads(data) == data \in {"{\"op\":\"insert\"}", "{\"op\":\"delete\"}", "[]", "0"}

\* ------------------------------------------------------------ CPython dict
\* A dict is [id, slots]: id tells dict objects apart (a room that is
\* deleted and created again is a new object), slots is the entry array.
\* A deleted entry stays in the array as a hole.
Hole == [user_id |-> "", websocket |-> 0]

Live(slots) == Cardinality({i \in DOMAIN slots : slots[i] # Hole})

Keys(slots) == {slots[i].user_id : i \in {j \in DOMAIN slots : slots[j] # Hole}}

IndexOf(slots, k) == CHOOSE i \in DOMAIN slots : slots[i] # Hole /\ slots[i].user_id = k

\* dict_set as a list would do it: a new entry for every assignment
dict_set_append(slots, k, v) == Append(slots, [user_id |-> k, websocket |-> v])

\* d[k] = v: overwrite in place when k is present, else append
dict_set(slots, k, v) ==
    IF k \in Keys(slots)
      THEN [slots EXCEPT ![IndexOf(slots, k)] = [user_id |-> k, websocket |-> v]]
      ELSE Append(slots, [user_id |-> k, websocket |-> v])

\* del d[k]
dict_del(slots, k) == [slots EXCEPT ![IndexOf(slots, k)] = Hole]

\* d[k]
dict_get(slots, k) == slots[IndexOf(slots, k)].websocket

\* user_info[document_id] is never iterated across an await: it is kept as
\* the list of its values in insertion order
InfoKeys(infos) == {infos[i].user_id : i \in DOMAIN infos}

info_set(infos, k, v) ==
    IF k \in InfoKeys(infos)
      THEN [i \in DOMAIN infos |-> IF infos[i].user_id = k THEN v ELSE infos[i]]
      ELSE Append(infos, v)

info_del(infos, k) == SelectSeq(infos, LAMBDA r : r.user_id # k)

\* remove the key k from the function f
DropKey(f, k) == [x \in DOMAIN f \ {k} |-> f[x]]

\* add or overwrite the key k of the function f
PutKey(f, k, v) == [x \in DOMAIN f \cup {k} |-> IF x = k THEN v ELSE f[x]]

\* ------------------------------------------------------- ConnectionManager
\* The registry is the pair [ac, ui] of active_connections and user_info.

\* connect without lines 54-58: the presence entry of the user is not
\* written
connect_no_info(reg, websocket, document_id, user_id, user_name, clock) ==
    LET ac0 == IF document_id \notin DOMAIN reg.ac
                 THEN PutKey(reg.ac, document_id, [id |-> clock, slots |-> << >>])
                 ELSE reg.ac
        ui0 == IF document_id \notin DOMAIN reg.ac
                 THEN PutKey(reg.ui, document_id, << >>)
                 ELSE reg.ui
    IN [ac |-> [ac0 EXCEPT ![document_id].slots = dict_set(@, user_id, websocket)],
        ui |-> ui0]

\* connect, lines 49-58 (after accept, before the presence broadcast)
connect(reg, websocket, document_id, user_id, user_name, clock) ==
    LET ac0 == IF document_id \notin DOMAIN reg.ac
                 THEN PutKey(reg.ac, document_id, [id |-> clock, slots |-> << >>])
                 ELSE reg.ac
        ui0 == IF document_id \notin DOMAIN reg.ac
                 THEN PutKey(reg.ui, document_id, << >>)
                 ELSE reg.ui
    IN [ac |-> [ac0 EXCEPT ![document_id].slots = dict_set(@, user_id, websocket)],
        ui |-> [ui0 EXCEPT ![document_id] =
                   info_set(@, user_id, [user_id |-> user_id,
                                         user_name |-> user_name,
                                         connected_at |-> clock])]]

\* disconnect without lines 66-67: the presence entry of the user stays
disconnect_keeps_info(reg, document_id, user_id) ==
    LET ac1 == IF document_id \in DOMAIN reg.ac /\ user_id \in Keys(reg.ac[document_id].slots)
                 THEN [reg.ac EXCEPT ![document_id].slots = dict_del(@, user_id)]
                 ELSE reg.ac
        ac2 == IF document_id \in DOMAIN ac1 /\ Live(ac1[document_id].slots) = 0
                 THEN DropKey(ac1, document_id)
                 ELSE ac1
    IN [ac |-> ac2, ui |-> reg.ui]

\* disconnect without lines 69-73: an emptied room stays in both maps
disconnect_no_cleanup(reg, document_id, user_id) ==
    [ac |-> IF document_id \in DOMAIN reg.ac /\ user_id \in Keys(reg.ac[document_id].slots)
              THEN [reg.ac EXCEPT ![document_id].slots = dict_del(@, user_id)]
              ELSE reg.ac,
     ui |-> IF document_id \in DOMAIN reg.ui /\ user_id \in InfoKeys(reg.ui[document_id])
              THEN [reg.ui EXCEPT ![document_id] = info_del(@, user_id)]
              ELSE reg.ui]

\* disconnect without the emptiness tests of lines 70 and 72: the room is
\* deleted from both maps at every call
disconnect_always_drops_room(reg, document_id, user_id) ==
    [ac |-> IF document_id \in DOMAIN reg.ac THEN DropKey(reg.ac, document_id) ELSE reg.ac,
     ui |-> IF document_id \in DOMAIN reg.ui THEN DropKey(reg.ui, document_id) ELSE reg.ui]

\* disconnect that does not look at document_id: the user is removed from
\* every room, and every emptied room is dropped
disconnect_everywhere(reg, document_id, user_id) ==
    LET ac1 == [d \in DOMAIN reg.ac |->
                   IF user_id \in Keys(reg.ac[d].slots)
                     THEN [reg.ac[d] EXCEPT !.slots = dict_del(@, user_id)]
                     ELSE reg.ac[d]]
        ui1 == [d \in DOMAIN reg.ui |->
                   IF user_id \in InfoKeys(reg.ui[d])
                     THEN info_del(reg.ui[d], user_id)
                     ELSE reg.ui[d]]
    IN [ac |-> [d \in {x \in DOMAIN ac1 : Live(ac1[x].slots) > 0} |-> ac1[d]],
        ui |-> [d \in {x \in DOMAIN ui1 : ui1[x] # << >>} |-> ui1[d]]]

\* disconnect, lines 63-73
disconnect(reg, document_id, user_id) ==
    LET ac1 == IF document_id \in DOMAIN reg.ac /\ user_id \in Keys(reg.ac[document_id].slots)
                 THEN [reg.ac EXCEPT ![document_id].slots = dict_del(@, user_id)]
                 ELSE reg.ac
        ui1 == IF document_id \in DOMAIN reg.ui /\ user_id \in InfoKeys(reg.ui[document_id])
                 THEN [reg.ui EXCEPT ![document_id] = info_del(@, user_id)]
                 ELSE reg.ui
        ac2 == IF document_id \in DOMAIN ac1 /\ Live(ac1[document_id].slots) = 0
                 THEN DropKey(ac1, document_id)
                 ELSE ac1
        ui2 == IF document_id \in DOMAIN ui1 /\ ui1[document_id] = << >>
                 THEN DropKey(ui1, document_id)
                 ELSE ui1
    IN [ac |-> ac2, ui |-> ui2]

\* ----------------------------------------------------------- dict iterator
\* iter(d.items()): position 1, di_used = len = the current size
dict_iter(ac, document_id) ==
    [dict |-> ac[document_id].id, pos |-> 1,
     used |-> Live(ac[document_id].slots), len |-> Live(ac[document_id].slots)]

\* the entry array the iterator walks: the dict it was created on, which is
\* empty once the room it belonged to has been deleted
IterSlots(ac, document_id, it) ==
    IF document_id \in DOMAIN ac /\ ac[document_id].id = it.dict
      THEN ac[document_id].slots
      ELSE << >>

\* next(it) (dictiter_iternextitem): "error" is RuntimeError (dictionary
\* changed size / keys changed during iteration), "stop" is StopIteration
dict_next(ac, document_id, it) ==
    LET slots == IterSlots(ac, document_id, it)
        rest == {i \in DOMAIN slots : i >= it.pos /\ slots[i] # Hole}
        i == CHOOSE j \in rest : \A k \in rest : j <= k
    IN IF it.used # Live(slots) THEN [st |-> "error", it |-> it, item |-> Hole]
       ELSE IF rest = {} THEN [st |-> "stop", it |-> it, item |-> Hole]
       ELSE IF it.len = 0 THEN [st |-> "error", it |-> it, item |-> Hole]
       ELSE [st |-> "item",
             it |-> [it EXCEPT !.pos = i + 1, !.len = @ - 1],
             item |-> slots[i]]

\* the for loop of broadcast without the test of lines 83-84: the sender is
\* sent its own message
loop_next_no_exclude(ac, document_id, it, exclude_user) == dict_next(ac, document_id, it)

\* the for loop of broadcast from one call of next up to the next send:
\* entries of exclude_user are skipped (lines 83-84)
RECURSIVE loop_next(_, _, _, _)
loop_next(ac, document_id, it, exclude_user) ==
    LET n == dict_next(ac, document_id, it)
    IN IF n.st = "item" /\ exclude_user # "" /\ n.item.user_id = exclude_user
         THEN loop_next(ac, document_id, n.it, exclude_user)
         ELSE n

\* ------------------------------------------------------------------- state
VARIABLES
    active_connections, \* document_id -> dict user_id -> websocket
    user_info,          \* document_id -> list of presence entries
    pc,                 \* per connection: where its task is suspended
    token,              \* per connection: the credential it presented
    document_id,        \* per connection: the document in its path
    user_id,            \* per connection: user_id of the token payload
    stream,             \* per connection: state of the underlying stream
    close_reason,       \* per connection: reason given to websocket.close
    frame,              \* per connection: its call of broadcast
    sent,               \* per connection: websockets its broadcast reached
    failed,             \* per connection: websockets its broadcast could
                        \*   not send to
    snap,               \* per connection: websockets registered in the room
                        \*   when its broadcast started
    joined,             \* document_id -> users added and not removed since
    received,           \* per connection: the texts receive_text returned
    got,                \* per connection: the relayed texts sent to it, each
                        \*   as sender and number of the text at the sender
    heard,              \* per connection: the user list of the last
                        \*   presence event sent to it
    dropped,            \* document_id -> users removed because a send to
                        \*   them failed, and who have not joined again
    clock,              \* datetime.now(), counted in connects
    nrelay,             \* messages received so far
    nrejected,          \* admissions rejected so far
    db_users,           \* the documents of the collection db.users
    reg_pc,             \* per register request: where it is suspended
    reg_name,           \* per register request: user_data.username
    reg_status          \* per register request: status of its response

hubvars == <<active_connections, user_info, pc, token, document_id, user_id,
             stream, close_reason, frame, sent, failed, snap, joined, received,
             got, heard, dropped, clock, nrelay, nrejected>>

regvars == <<db_users, reg_pc, reg_name, reg_status>>

vars == <<hubvars, regvars>>

registry == [ac |-> active_connections, ui |-> user_info]

NoIter == [dict |-> 0, pos |-> 0, used |-> 0, len |-> 0]

NoMessage == [type |-> "", users |-> << >>, data |-> ""]

\* a task that has not called broadcast yet
NoFrame == [st |-> "none", ctx |-> "", message |-> NoMessage,
            exclude_user |-> "", it |-> NoIter, target |-> Hole]

\* websockets registered in a room
RoomSockets(ac, d) ==
    IF d \in DOMAIN ac
      THEN {ac[d].slots[i].websocket : i \in {j \in DOMAIN ac[d].slots : ac[d].slots[j] # Hole}}
      ELSE {}

\* users listed in a presence event
ListedUsers(users) == {users[i].user_id : i \in DOMAIN users}

Init ==
    /\ active_connections = << >>
    /\ user_info = << >>
    /\ pc = [c \in Conns |-> "pending"]
    /\ token = [c \in Conns |-> NoToken]
    /\ document_id = [c \in Conns |-> ""]
    /\ user_id = [c \in Conns |-> ""]
    /\ stream = [c \in Conns |-> "new"]
    /\ close_reason = [c \in Conns |-> ""]
    /\ frame = [c \in Conns |-> NoFrame]
    /\ sent = [c \in Conns |-> {}]
    /\ failed = [c \in Conns |-> {}]
    /\ snap = [c \in Conns |-> {}]
    /\ joined = [d \in DOMAIN documents |-> {}]
    /\ received = [c \in Conns |-> << >>]
    /\ got = [c \in Conns |-> << >>]
    /\ heard = [c \in Conns |-> << >>]
    /\ dropped = [d \in DOMAIN documents |-> {}]
    /\ clock = 1
    /\ nrelay = 0
    /\ nrejected = 0
    /\ db_users = {}
    /\ reg_pc = [r \in Requests |-> "new"]
    /\ reg_name = [r \in Requests |-> ""]
    /\ reg_status = [r \in Requests |-> 0]

\* broadcast_presence sending a delta: only the entry added last
presence_data_delta(ui, d) ==
    [type |-> "presence",
     users |-> IF ui[d] = << >> THEN << >> ELSE <<ui[d][Len(ui[d])]>>,
     data |-> ""]

\* broadcast_presence, lines 92-96: the event built from user_info
presence_data(ui, d) == [type |-> "presence", users |-> ui[d], data |-> ""]

\* broadcast, lines 81-84: the loop from its start to the first send
begin_broadcast(ac, d, exclude_user) ==
    IF d \in DOMAIN ac
      THEN loop_next(ac, d, dict_iter(ac, d), exclude_user)
      ELSE [st |-> "stop", it |-> NoIter, item |-> Hole]

\* What the task of c does once its broadcast loop has asked for the next
\* entry (n): suspend in send_text, or leave broadcast and go on in
\* websocket_endpoint.  ctx is the call site of the broadcast: "join"
\* (connect, line 61), "relay" (line 316) or "leave" (line 320).
\*   StopIteration: join and relay go (back) to receive_text (line 312);
\*                  leave ends the endpoint.
\*   RuntimeError:  not a WebSocketDisconnect, caught at line 322, the
\*                  connection is closed with 1011 and the endpoint ends.
Continue(c, reg, strm, ctx, message, exclude_user, n, sent_c, failed_c, snap_c) ==
    /\ active_connections' = reg.ac
    /\ user_info' = reg.ui
    /\ sent' = [sent EXCEPT ![c] = sent_c]
    /\ failed' = [failed EXCEPT ![c] = failed_c]
    /\ snap' = [snap EXCEPT ![c] = snap_c]
    /\ frame' = [frame EXCEPT ![c] =
                   [st |-> IF n.st = "item" THEN "running"
                           ELSE IF n.st = "stop" THEN "done" ELSE "raised",
                    ctx |-> ctx, message |-> message,
                    exclude_user |-> exclude_user,
                    it |-> IF n.st = "item" THEN n.it ELSE NoIter,
                    target |-> n.item]]
    /\ pc' = [pc EXCEPT ![c] =
                 IF n.st = "item" THEN "send"
                 ELSE IF n.st = "stop" /\ ctx # "leave" THEN "receive"
                 ELSE "closed"]
    /\ close_reason' = [close_reason EXCEPT ![c] =
                          IF n.st = "error" THEN "Internal error" ELSE @]
    /\ stream' = [strm EXCEPT ![c] = IF n.st = "error" THEN "closed" ELSE @]

\* admission without the collaborator test of line 303: every user with a
\* valid token is let into every existing document
admission_no_access_check(tok, d) ==
    LET payload == decode_jwt_token(tok)
    IN IF tok = NoToken THEN "Token required"
       ELSE IF payload.raised THEN "Internal error"
       ELSE IF payload.user_id = "" \/ payload.username = "" THEN "Invalid token"
       ELSE IF d \notin DOMAIN documents THEN "Access denied"
       ELSE ""

\* the outcome of the checks of websocket_endpoint, lines 287-305: the
\* reason the stream is closed with, or "" when the connection is admitted
admission(tok, d) ==
    LET payload == decode_jwt_token(tok)
    IN IF tok = NoToken THEN "Token required"
       ELSE IF payload.raised THEN "Internal error"
       ELSE IF payload.user_id = "" \/ payload.username = "" THEN "Invalid token"
       ELSE IF d \notin DOMAIN documents \/ payload.user_id \notin documents[d]
         THEN "Access denied"
       ELSE ""

\* websocket_endpoint is called for a new stream and rejects it (lines
\* 287-305, and 322-324 when decode_jwt_token raises)
Reject(c, tok, d) ==
    /\ pc[c] = "pending"
    /\ \A b \in Conns : b < c => pc[b] # "pending"
    /\ nrejected < MaxRejected
    /\ admission(tok, d) # ""
    /\ pc' = [pc EXCEPT ![c] = "closed"]
    /\ token' = [token EXCEPT ![c] = tok]
    /\ document_id' = [document_id EXCEPT ![c] = d]
    /\ stream' = [stream EXCEPT ![c] = "closed"]
    /\ close_reason' = [close_reason EXCEPT ![c] = admission(tok, d)]
    /\ user_id' = [user_id EXCEPT ![c] = decode_jwt_token(tok).user_id]
    /\ nrejected' = nrejected + 1
    /\ UNCHANGED <<active_connections, user_info, frame, sent, failed, snap,
                   joined, received, got, heard, dropped, clock, nrelay>>
    /\ UNCHANGED regvars

\* websocket_endpoint admits a new stream: lines 287-308, then connect
\* (accept, lines 49-58) and broadcast_presence up to its first send
Admit(c, tok, d) ==
    /\ pc[c] = "pending"
    /\ \A b \in Conns : b < c => pc[b] # "pending"
    /\ admission(tok, d) = ""
    /\ LET payload == decode_jwt_token(tok)
           reg == connect(registry, c, d, payload.user_id, payload.username, clock)
       IN /\ token' = [token EXCEPT ![c] = tok]
          /\ document_id' = [document_id EXCEPT ![c] = d]
          /\ user_id' = [user_id EXCEPT ![c] = payload.user_id]
          /\ joined' = [joined EXCEPT ![d] = @ \cup {payload.user_id}]
          /\ dropped' = [dropped EXCEPT ![d] = @ \ {payload.user_id}]
          /\ clock' = clock + 1
          /\ Continue(c, reg, [stream EXCEPT ![c] = "open"], "join",
                      presence_data(reg.ui, d), "",
                      begin_broadcast(reg.ac, d, ""), {}, {}, RoomSockets(reg.ac, d))
    /\ UNCHANGED <<received, got, heard, nrelay, nrejected>>
    /\ UNCHANGED regvars

\* A send_text of the broadcast of c returns or raises (lines 85-89), and
\* the loop goes on to its next send.  send_text raises when the stream of
\* the target is closed; the handler then removes the target's user_id.
SendDone(c) ==
    /\ pc[c] = "send"
    /\ LET f == frame[c]
           d == document_id[c]
           ok == stream[f.target.websocket] = "open"
           reg == IF ok THEN registry ELSE disconnect(registry, d, f.target.user_id)
           w == f.target.websocket
       IN /\ joined' = IF ok THEN joined
                       ELSE [joined EXCEPT ![d] = @ \ {f.target.user_id}]
          /\ dropped' = IF ~ok /\ d \in DOMAIN active_connections
                              /\ f.target.user_id \in Keys(active_connections[d].slots)
                         THEN [dropped EXCEPT ![d] = @ \cup {f.target.user_id}]
                         ELSE dropped
          /\ heard' = IF ok /\ f.message.type = "presence"
                       THEN [heard EXCEPT ![w] = f.message.users]
                       ELSE heard
          /\ got' = IF ok /\ f.message.type = "text"
                     THEN [got EXCEPT ![w] = Append(@, [from |-> c, n |-> Len(received[c]),
                                                       data |-> f.message.data])]
                     ELSE got
          /\ Continue(c, reg, stream, f.ctx, f.message, f.exclude_user,
                      loop_next(reg.ac, d, f.it, f.exclude_user),
                      IF ok THEN sent[c] \cup {f.target.websocket} ELSE sent[c],
                      IF ok THEN failed[c] ELSE failed[c] \cup {f.target.websocket},
                      snap[c])
    /\ UNCHANGED <<token, document_id, user_id, received, clock, nrelay,
                   nrejected>>
    /\ UNCHANGED regvars

\* the loop of lines 310-316 with the broadcast started but not awaited: the
\* next text is read while the fan-out of the last one is still under way
Relay_unawaited(c, data, budget) ==
    /\ pc[c] \in {"receive", "send"}
    /\ frame[c].ctx # "leave"
    /\ stream[c] = "open"
    /\ nrelay < budget
    /\ nrelay' = nrelay + 1
    /\ received' = [received EXCEPT ![c] = Append(@, data)]
    /\ LET d == document_id[c]
           message == [type |-> "text", users |-> << >>, data |-> data]
       IN IF json_loads(data)
            THEN Continue(c, registry, stream, "relay", message, user_id[c],
                          begin_broadcast(active_connections, d, user_id[c]),
                          {}, {}, RoomSockets(active_connections, d))
            ELSE /\ pc' = [pc EXCEPT ![c] = "closed"]
                 /\ close_reason' = [close_reason EXCEPT ![c] = "Internal error"]
                 /\ stream' = [stream EXCEPT ![c] = "closed"]
                 /\ UNCHANGED <<active_connections, user_info, frame, sent, failed, snap>>
    /\ UNCHANGED <<token, document_id, user_id, joined, got, heard, dropped,
                   clock, nrejected>>
    /\ UNCHANGED regvars

\* receive_text returns data (line 312), for at most budget messages over a
\* run; json.loads (line 313) raises on text that is not JSON, which is
\* caught at line 322; otherwise the data is broadcast to the others (line
\* 316) up to the first send
Relay(c, data, budget) ==
    /\ pc[c] = "receive"
    /\ stream[c] = "open"
    /\ nrelay < budget
    /\ nrelay' = nrelay + 1
    /\ received' = [received EXCEPT ![c] = Append(@, data)]
    /\ LET d == document_id[c]
           message == [type |-> "text", users |-> << >>, data |-> data]
       IN IF json_loads(data)
            THEN Continue(c, registry, stream, "relay", message, user_id[c],
                          begin_broadcast(active_connections, d, user_id[c]),
                          {}, {}, RoomSockets(active_connections, d))
            ELSE /\ pc' = [pc EXCEPT ![c] = "closed"]
                 /\ close_reason' = [close_reason EXCEPT ![c] = "Internal error"]
                 /\ stream' = [stream EXCEPT ![c] = "closed"]
                 /\ UNCHANGED <<active_connections, user_info, frame, sent, failed, snap>>
    /\ UNCHANGED <<token, document_id, user_id, joined, got, heard, dropped,
                   clock, nrejected>>
    /\ UNCHANGED regvars

\* one turn of the receive loop, lines 310-316
Receive(c, data) == Relay(c, data, MaxRelay)

\* receive_text raises WebSocketDisconnect (line 318): the entry of the
\* user is removed and presence is broadcast up to the first send
Disconnect(c) ==
    /\ pc[c] = "receive"
    /\ stream[c] = "closed"
    /\ LET d == document_id[c]
           reg == disconnect(registry, d, user_id[c])
       IN /\ joined' = [joined EXCEPT ![d] = @ \ {user_id[c]}]
          /\ IF d \in DOMAIN reg.ui
               THEN Continue(c, reg, stream, "leave", presence_data(reg.ui, d), "",
                             begin_broadcast(reg.ac, d, ""),
                             {}, {}, RoomSockets(reg.ac, d))
               ELSE Continue(c, reg, stream, "leave", NoMessage, "",
                             [st |-> "stop", it |-> NoIter, item |-> Hole],
                             {}, {}, {})
    /\ UNCHANGED <<token, document_id, user_id, received, got, heard, dropped,
                   clock, nrelay, nrejected>>
    /\ UNCHANGED regvars

\* the client closes its stream, or the network drops it
ClientClose(c) ==
    /\ pc[c] \in {"send", "receive"}
    /\ stream[c] = "open"
    /\ stream' = [stream EXCEPT ![c] = "closed"]
    /\ UNCHANGED <<active_connections, user_info, pc, token, document_id,
                   user_id, close_reason, frame, sent, failed, snap, joined,
                   received, got, heard, dropped, clock, nrelay, nrejected>>
    /\ UNCHANGED regvars

Next ==
    \/ \E c \in Conns, tok \in Tokens, d \in DocIds : Admit(c, tok, d)
    \/ \E c \in Conns : SendDone(c)
    \/ \E c \in Conns, data \in Payloads : Receive(c, data)
    \/ \E c \in Conns : Disconnect(c)
    \/ \E c \in Conns : ClientClose(c)

Spec == Init /\ [][Next]_vars

\* the admission protocol next to joins, leaves and presence broadcasts
GateNext ==
    \/ \E c \in Conns, tok \in Tokens, d \in DocIds : Reject(c, tok, d)
    \/ \E c \in Conns, tok \in Tokens, d \in DocIds : Admit(c, tok, d)
    \/ \E c \in Conns : SendDone(c)
    \/ \E c \in Conns : Disconnect(c)
    \/ \E c \in Conns : ClientClose(c)

GateSpec == Init /\ [][GateNext]_vars

\* several messages of the members of one room
FifoNext ==
    \/ \E c \in 1..NFifo, tok \in Users : Admit(c, tok, "d1")
    \/ \E c \in Conns : SendDone(c)
    \/ \E c \in Conns, data \in Payloads : Relay(c, data, MaxFifo)
    \/ \E c \in Conns : Disconnect(c)
    \/ \E c \in Conns : ClientClose(c)

FifoSpec == Init /\ [][FifoNext]_vars

\* ---------------------------------------------------------------- register
\* usernames a client may ask for
Usernames == {"ann", "bob"}

\* register, lines 177-181: the request r for username arrives and its
\* find_one is answered from the collection; an existing user gives 400
RegisterFind(r, username) ==
    /\ reg_pc[r] = "new"
    /\ reg_name' = [reg_name EXCEPT ![r] = username]
    /\ IF \E u \in db_users : u.username = username
         THEN /\ reg_pc' = [reg_pc EXCEPT ![r] = "done"]
              /\ reg_status' = [reg_status EXCEPT ![r] = 400]
         ELSE /\ reg_pc' = [reg_pc EXCEPT ![r] = "insert"]
              /\ UNCHANGED reg_status
    /\ UNCHANGED <<db_users, hubvars>>

\* register, lines 184-195: the insert_one of request r is carried out and
\* the token is returned; the new user has an id of its own (uuid4)
RegisterInsert(r) ==
    /\ reg_pc[r] = "insert"
    /\ db_users' = db_users \cup {[id |-> r, username |-> reg_name[r]]}
    /\ reg_pc' = [reg_pc EXCEPT ![r] = "done"]
    /\ reg_status' = [reg_status EXCEPT ![r] = 200]
    /\ UNCHANGED <<reg_name, hubvars>>

RegNext ==
    \/ \E r \in Requests, username \in Usernames : RegisterFind(r, username)
    \/ \E r \in Requests : RegisterInsert(r)

RegSpec == Init /\ [][RegNext]_vars

\* ================================================================== claims

\* Snapshot(document_id): the presence entries of a room
Snapshot(d) == IF d \in DOMAIN user_info THEN user_info[d] ELSE << >>

\* c got past admission: connect was called for it, which always starts a
\* presence broadcast
Admitted(c) == frame[c].st # "none"

\* the broadcast that c started at call site ctx is over (it returned or
\* raised)
Ended(c, ctx) == frame[c].ctx = ctx /\ frame[c].st \in {"done", "raised"}

\* websockets, other than those in skip, that were registered in the room of
\* c when its broadcast started, are still registered there and are open
Reachable(c, skip) ==
    {w \in (snap[c] \cap RoomSockets(active_connections, document_id[c])) \ skip :
        stream[w] = "open"}

\* the websockets of Reachable(c, skip) that are registered under another
\* user than the one of c
Others(c, skip) ==
    {w \in Reachable(c, skip) :
        \E i \in DOMAIN active_connections[document_id[c]].slots :
            /\ active_connections[document_id[c]].slots[i].websocket = w
            /\ active_connections[document_id[c]].slots[i].user_id # user_id[c]}

\* C1: a relay from member A reaches the channel of every other member
\* registered in the room and never A's own channel.
C1_RelayReachesAllOthers ==
    \A c \in Conns :
        Ended(c, "relay") =>
            /\ Others(c, {c}) \subseteq sent[c]
            /\ c \notin sent[c]

\* C2: when the send to one member B fails during a relay, every other
\* member except the sender still receives the message, and B is no longer
\* in the registry.
C2_FailedSendDoesNotAbortFanOut ==
    \A c \in Conns :
        (Ended(c, "relay") /\ failed[c] # {}) =>
            /\ Others(c, {c} \cup failed[c]) \subseteq sent[c]
            /\ \A b \in failed[c] :
                  b \notin RoomSockets(active_connections, document_id[c])

\* C3: once the task of a connection that was Active has ended, no registry
\* entry points to the stream of that connection.
C3_NoEntryOfEndedConnection ==
    \A c \in Conns :
        (pc[c] = "closed" /\ Admitted(c)) =>
            \A d \in DOMAIN active_connections :
                c \notin RoomSockets(active_connections, d)

\* C4: after any sequence of joins and leaves the snapshot of a room lists
\* exactly the users that joined and have not left since, each once.
C4_SnapshotIsJoinedMinusLeft ==
    \A d \in DOMAIN documents :
        /\ ListedUsers(Snapshot(d)) = joined[d]
        /\ Len(Snapshot(d)) = Cardinality(joined[d])

\* C4 witness: a user has joined and left a room in which another user is
\* still listed
C4_Witness ==
    \E c \in Conns :
        /\ Ended(c, "leave")
        /\ joined[document_id[c]] # {}
        /\ user_id[c] \notin joined[document_id[c]]
        /\ ListedUsers(Snapshot(document_id[c])) = joined[document_id[c]]

\* C5: no room without members is kept, in either map of the registry.
C5_NoEmptyRoom ==
    /\ \A d \in DOMAIN active_connections : Live(active_connections[d].slots) > 0
    /\ \A d \in DOMAIN user_info : user_info[d] # << >>

\* C5 witness: a room that was emptied, removed and created again, and a
\* room that is gone after its last member left
C5_Witness ==
    /\ \E c \in Conns :
          /\ Ended(c, "leave")
          /\ document_id[c] \in DOMAIN active_connections
          /\ c < active_connections[document_id[c]].id
    /\ \E c \in Conns :
          /\ Ended(c, "leave")
          /\ document_id[c] \notin DOMAIN active_connections
          /\ document_id[c] \notin DOMAIN user_info

\* one entry per user in both maps of a room
OneEntryPerUser ==
    /\ \A d \in DOMAIN active_connections :
          \A i, j \in DOMAIN active_connections[d].slots :
              (/\ active_connections[d].slots[i] # Hole
               /\ active_connections[d].slots[i].user_id =
                      active_connections[d].slots[j].user_id) => i = j
    /\ \A d \in DOMAIN user_info :
          \A i, j \in DOMAIN user_info[d] :
              user_info[d][i].user_id = user_info[d][j].user_id => i = j

\* a connection c is admitted to room d as a user that is already there
Rejoins(c, d) ==
    /\ pc[c] = "pending"
    /\ pc'[c] # "pending"
    /\ document_id'[c] = d
    /\ d \in DOMAIN active_connections
    /\ user_id'[c] \in Keys(active_connections[d].slots)

\* C6: joining as a user that is already in the room replaces the channel
\* and the metadata of the entry, the room does not grow, and there is
\* never more than one entry per (document, user).
C6_LastConnectWins ==
    /\ []OneEntryPerUser
    /\ [][\A c \in Conns, d \in DOMAIN documents :
            Rejoins(c, d) =>
              /\ Live(active_connections'[d].slots) = Live(active_connections[d].slots)
              /\ Len(user_info'[d]) = Len(user_info[d])
              /\ dict_get(active_connections'[d].slots, user_id'[c]) = c
              /\ dict_get(active_connections[d].slots, user_id'[c]) # c
              /\ \A i \in DOMAIN user_info'[d] :
                    user_info'[d][i].user_id = user_id'[c] =>
                        /\ user_info'[d][i].connected_at = clock
                        /\ user_info[d][i].user_id = user_id'[c]
                        /\ user_info[d][i].connected_at < clock]_vars

\* C6 witness: a second connection of a user has taken over the entry while
\* the first one is still open
C6_Witness ==
    \E a, b \in Conns :
        /\ a # b
        /\ document_id[a] = document_id[b]
        /\ user_id[a] = user_id[b]
        /\ user_id[a] # ""
        /\ stream[a] = "open"
        /\ pc[b] \in {"send", "receive"}
        /\ document_id[b] \in DOMAIN active_connections
        /\ user_id[b] \in Keys(active_connections[document_id[b]].slots)
        /\ dict_get(active_connections[document_id[b]].slots, user_id[b]) = b
        /\ Live(active_connections[document_id[b]].slots) = 1

\* an admission attempt that the gatekeeper must reject: no credential, an
\* invalid or expired one, an absent document, or a user who is not a
\* collaborator of the document
RejectedInput(tok, d) ==
    \/ tok \notin Users
    \/ d \notin DOMAIN documents
    \/ tok \notin documents[d]

\* C7: a rejected admission ends with the stream closed and changes nothing
\* in the registry, and no presence event is sent.
C7_RejectionLeavesRegistryUntouched ==
    [][\A c \in Conns :
          (/\ pc[c] = "pending"
           /\ pc'[c] # "pending"
           /\ RejectedInput(token'[c], document_id'[c])) =>
              /\ pc'[c] = "closed"
              /\ stream'[c] = "closed"
              /\ close_reason'[c] # ""
              /\ active_connections' = active_connections
              /\ user_info' = user_info
              /\ frame' = frame
              /\ sent' = sent]_vars

\* C7 witness: a user who is not a collaborator was turned away from a
\* room that has a member
C7_Witness ==
    \E c \in Conns :
        /\ pc[c] = "closed"
        /\ ~Admitted(c)
        /\ token[c] \in Users
        /\ RejectedInput(token[c], document_id[c])
        /\ stream[c] = "closed"
        /\ document_id[c] \in DOMAIN active_connections

\* C8: each rejection closes with its own reason, and "Internal error" is
\* never the reason of a rejected admission.
C8_DistinctCloseReasons ==
    \A c \in Conns :
        (pc[c] = "closed" /\ ~Admitted(c)) =>
            /\ token[c] = NoToken => close_reason[c] = "Token required"
            /\ token[c] \in {"expired", "garbage"} => close_reason[c] = "Invalid token"
            /\ token[c] \in Users => close_reason[c] = "Access denied"
            /\ close_reason[c] # "Internal error"

\* C9: the presence event of a join lists the joining member and reaches
\* every member of the room, the joiner included.
C9_JoinAnnouncedToWholeRoom ==
    \A c \in Conns :
        Ended(c, "join") =>
            /\ user_id[c] \in ListedUsers(frame[c].message.users)
            /\ c \in snap[c]
            /\ Reachable(c, {}) \subseteq sent[c]

\* C10: a member that disconnects is removed first; the presence event
\* that follows does not list it, reaches every remaining member and is
\* not sent to the removed member.
C10_LeaveAnnouncedToRemaining ==
    \A c \in Conns :
        Ended(c, "leave") =>
            /\ user_id[c] \notin ListedUsers(frame[c].message.users)
            /\ c \notin snap[c]
            /\ c \notin sent[c]
            /\ Reachable(c, {c}) \subseteq sent[c]

\* no task of the hub can take a step: every task is suspended in
\* receive_text on an open stream, has ended, or has not started
Idle ==
    \A c \in Conns :
        \/ pc[c] \in {"pending", "closed"}
        \/ pc[c] = "receive" /\ stream[c] = "open"

\* members of room d whose stream is open and whose task waits for input
Listening(d) ==
    {w \in RoomSockets(active_connections, d) :
        pc[w] = "receive" /\ stream[w] = "open"}

\* C11: after a member was removed because a send to it failed, the
\* remaining members are sent a presence event that no longer lists it:
\* once the hub has nothing left to do, no remaining member's latest
\* presence list names a user removed that way.
C11_FailedSendRemovalAnnounced ==
    Idle =>
        \A d \in DOMAIN active_connections :
            \A w \in Listening(d) :
                ListedUsers(heard[w]) \cap dropped[d] = {}

\* the task of c has read a text from its stream in this step
Reads(c) == Len(received'[c]) > Len(received[c])

\* C12: the hub relays whatever text it receives, well-formed JSON or not:
\* the text is handed unchanged to the broadcast to the other members and
\* the sender stays Active.
C12_OpaqueRelay ==
    [][\A c \in Conns :
          Reads(c) =>
              /\ pc'[c] \in {"send", "receive"}
              /\ stream'[c] = "open"
              /\ close_reason'[c] = ""
              /\ frame'[c].ctx = "relay"
              /\ frame'[c].message.data = received'[c][Len(received'[c])]]_vars

\* the websocket registered for user u in room d, 0 when there is none
EntryOf(ac, d, u) ==
    IF d \in DOMAIN ac /\ u \in Keys(ac[d].slots) THEN dict_get(ac[d].slots, u) ELSE 0

\* a send of the relay of c raises in this step
RelaySendFails(c) ==
    /\ pc[c] = "send"
    /\ frame[c].ctx = "relay"
    /\ failed'[c] # failed[c]

\* C13: a failed send to member B during a relay from A removes only B: A
\* stays Active and registered with its connection open, and the registry
\* entries of all users other than B are unchanged.
C13_DeliveryErrorsAreLocal ==
    [][\A c \in Conns :
          RelaySendFails(c) =>
              /\ pc'[c] \in {"send", "receive"}
              /\ stream'[c] = stream[c]
              /\ close_reason'[c] = close_reason[c]
              /\ \A d \in DocIds : \A u \in Users \ {frame[c].target.user_id} :
                     EntryOf(active_connections', d, u) = EntryOf(active_connections, d, u)]_vars

\* the task of c was admitted and ended in the handler of lines 322-324
Faulted(c) ==
    /\ Admitted(c)
    /\ pc[c] = "closed"
    /\ close_reason[c] = "Internal error"

\* C14: once the task of a connection ended with an unexpected exception
\* and the hub is idle again, the members that are still listening in its
\* room hold a presence list that omits the faulted peer (unless its user
\* joined again on another connection).
C14_InternalFaultIsolated ==
    Idle =>
        \A c \in Conns :
            (Faulted(c) /\ EntryOf(active_connections, document_id[c], user_id[c]) \in {0, c}) =>
                \A w \in Listening(document_id[c]) \ {c} :
                    user_id[c] \notin ListedUsers(heard[w])

\* the broadcast of task a is suspended in a send_text on websocket w
Sending(a, w) == pc[a] = "send" /\ frame[a].target.websocket = w

\* C16: no two tasks are at the same time in the middle of a send on the
\* same member's websocket.
C16_SendsSerializedPerConnection ==
    \A a, b \in Conns : \A w \in Conns :
        (Sending(a, w) /\ Sending(b, w)) => a = b

\* the websockets the ended broadcast of c owed a delivery: registered in
\* the room when it started, still registered and open, and not excluded
Owed(c) == IF frame[c].ctx = "relay" THEN Others(c, {c}) ELSE Reachable(c, {})

\* C17: a broadcast none of whose own sends failed is not aborted by the
\* joins and leaves of other users that interleave with it, and it delivers
\* to every member that was registered when it started and still is.
C17_BroadcastInsulatedFromMembershipChanges ==
    \A c \in Conns :
        (frame[c].st \in {"done", "raised"} /\ failed[c] = {}) =>
            /\ frame[c].st = "done"
            /\ Owed(c) \subseteq sent[c]

\* C18: disconnect(document, user) for a user or room that is not in the
\* registry leaves the registry unchanged, and removing a member twice gives
\* the same registry as removing it once.
C18_RemoveIdempotent ==
    \A d \in DocIds : \A u \in Users :
        LET once == disconnect(registry, d, u)
        IN /\ disconnect(once, d, u) = once
           /\ EntryOf(active_connections, d, u) = 0 => once = registry

\* b was removed after a send to it failed in the broadcast of c, and was
\* removed again when its own receive loop ended; another member is still in
\* the room
C18_Witness ==
    \E c, b \in Conns :
        /\ b \in failed[c]
        /\ frame[b].ctx = "leave"
        /\ EntryOf(active_connections, document_id[b], user_id[b]) = 0
        /\ document_id[b] \in DOMAIN active_connections

\* the user ids of a presence list, in its order
UserIds(users) == [i \in DOMAIN users |-> users[i].user_id]

\* connections 1 and 2 are U1 and U2, two users in the same document; no
\* other connection was opened
TwoUsers ==
    /\ pc[3] = "pending"
    /\ document_id[1] = document_id[2]
    /\ user_id[1] # user_id[2]

\* c is Active: its task waits for the client's next message
Active(c) == pc[c] = "receive" /\ stream[c] = "open"

\* U1 has joined and nothing else has happened
Joined1 == Active(1) /\ pc[2] = "pending" /\ pc[3] = "pending" /\ received[1] = << >>

\* then U2 has joined
Joined2 == TwoUsers /\ Active(1) /\ Active(2) /\ received[1] = << >> /\ received[2] = << >>

\* then U1 has sent a payload, with U2 in the room, and its relay is over
Relayed ==
    /\ TwoUsers /\ Active(1) /\ Active(2)
    /\ Len(received[1]) = 1 /\ received[2] = << >>
    /\ Ended(1, "relay") /\ snap[1] = {1, 2}

\* then U2 has disconnected and its leave broadcast is over
Left2 ==
    /\ TwoUsers /\ Active(1)
    /\ Len(received[1]) = 1 /\ received[2] = << >>
    /\ Ended(1, "relay") /\ snap[1] = {1, 2} /\ got[2] # << >>
    /\ pc[2] = "closed" /\ Ended(2, "leave")

\* C19: U1 joins D and is sent a presence event listing only U1; U2 joins
\* and both are sent one listing U1, U2; U1 sends a payload, which U2 is
\* sent unchanged and U1 is not; U2 disconnects and U1 is sent a presence
\* event listing only U1.
C19_EndToEndScenario ==
    /\ Joined1 => UserIds(heard[1]) = <<user_id[1]>>
    /\ Joined2 => /\ UserIds(heard[1]) = <<user_id[1], user_id[2]>>
                  /\ UserIds(heard[2]) = <<user_id[1], user_id[2]>>
    /\ Relayed => /\ got[2] = <<[from |-> 1, n |-> 1, data |-> received[1][1]]>>
                  /\ got[1] = << >>
    /\ Left2 => /\ UserIds(heard[1]) = <<user_id[1]>>
                /\ got[1] = << >>

\* the end of the scenario
C19_Witness ==
    /\ Left2
    /\ got[2] = <<[from |-> 1, n |-> 1, data |-> received[1][1]]>>
    /\ UserIds(heard[2]) = <<user_id[1], user_id[2]>>
    /\ UserIds(heard[1]) = <<user_id[1]>>

\* the relayed messages of sender a that were delivered to websocket w, in
\* the order of their delivery
FromSender(w, a) == SelectSeq(got[w], LAMBDA m : m.from = a)

\* what w was sent of a's messages is in the order a sent them, each the
\* text a sent
FifoOrder ==
    \A w, a \in Conns :
        LET s == FromSender(w, a)
        IN /\ \A i, j \in DOMAIN s : i < j => s[i].n < s[j].n
           /\ \A i \in DOMAIN s : s[i].data = received[a][s[i].n]

\* C15: the relayed messages of sender A that receiver B is sent arrive in
\* the order A sent them, whatever other senders relay in between: a message
\* of A is read only when the fan-out of A's previous one is over.
C15_PerSenderFifo ==
    /\ []FifoOrder
    /\ [][\A c \in Conns : Reads(c) => frame[c].st = "done"]_vars

\* w was sent two messages of a, and a was sent a message of w
C15_Witness ==
    \E a, w \in Conns :
        /\ a # w
        /\ Len(FromSender(w, a)) = 2
        /\ Len(FromSender(a, w)) >= 1

\* C20: a register request for a username that exists is answered 400 and
\* creates no user, and the collection never holds two users with the same
\* username, also when requests for the same username run concurrently.
C20_UsernamesUnique ==
    /\ \A r \in Requests :
           reg_status[r] = 400 => ~ \E u \in db_users : u.id = r
    /\ \A u, v \in db_users : u.username = v.username => u = v

\* the broadcast of c is a presence broadcast
Presence(c) == frame[c].st # "none" /\ frame[c].message.type = "presence"

\* the users registered in the room when the broadcast of c began
MembersAtStart(c) == {user_id[w] : w \in snap[c]}

\* the event of a presence broadcast lists the members the room had when it
\* began, each once
FullSnapshot ==
    \A c \in Conns :
        Presence(c) =>
            /\ ListedUsers(frame[c].message.users) = MembersAtStart(c)
            /\ Len(frame[c].message.users) = Cardinality(MembersAtStart(c))

\* every send of a broadcast delivers the event the broadcast began with
SameEventToAll ==
    /\ \A c \in Conns : pc[c] = "send" => frame'[c].message = frame[c].message
    /\ \A w \in Conns :
           heard'[w] # heard[w] =>
               \E c \in Conns : /\ pc[c] = "send" /\ Presence(c)
                                /\ frame[c].target.websocket = w
                                /\ heard'[w] = frame[c].message.users

\* C21: all recipients of one presence broadcast are sent the same user
\* list, the membership of the room at the instant the broadcast began, also
\* when joins and leaves interleave with its sends.
C21_PresenceIsConsistentSnapshot ==
    /\ []FullSnapshot
    /\ [][SameEventToAll]_vars

\* a presence broadcast that reached several members and was cut short by a
\* change of the room's membership
C21_Witness ==
    \E c \in Conns :
        /\ Presence(c)
        /\ Cardinality(sent[c]) >= 2
        /\ failed[c] = {}
        /\ frame[c].st = "raised"
        /\ \A w \in sent[c] : w # c => ListedUsers(heard[w]) = MembersAtStart(c)

\* no later connection joined the document of c as the user of c
LastToJoin(c) ==
    \A b \in Conns :
        (b > c /\ Admitted(b)) =>
            ~(document_id[b] = document_id[c] /\ user_id[b] = user_id[c])

\* C22: a connection that is open and was the last to join for its
\* (document, user) stays registered until it closes itself; the disconnect
\* of an earlier connection of the same user does not remove its entry.
C22_ReplacementStaysRegistered ==
    \A c \in Conns :
        (Admitted(c) /\ pc[c] \in {"send", "receive"} /\ stream[c] = "open" /\ LastToJoin(c)) =>
            EntryOf(active_connections, document_id[c], user_id[c]) = c

\* C23: at every interleaving point active_connections and user_info hold
\* the same documents and, for each document, the same users.
C23_MapsInLockstep ==
    /\ DOMAIN active_connections = DOMAIN user_info
    /\ \A d \in DOMAIN active_connections :
           Keys(active_connections[d].slots) = InfoKeys(user_info[d])

\* a room that still has a member after one user was removed by a failed
\* send and another by its own disconnect
C23_Witness ==
    \E c, b \in Conns : \E d \in DOMAIN active_connections :
        /\ failed[c] # {}
        /\ frame[b].ctx = "leave"
        /\ document_id[b] = d /\ document_id[c] = d
        /\ Keys(active_connections[d].slots) # {}

\* what the registry holds for document d
Room(ac, ui, d) ==
    [ac |-> IF d \in DOMAIN ac THEN <<ac[d]>> ELSE << >>,
     ui |-> IF d \in DOMAIN ui THEN <<ui[d]>> ELSE << >>]

\* the task of c takes this step
Acts(c) ==
    \/ pc'[c] # pc[c]
    \/ frame'[c] # frame[c]
    \/ sent'[c] # sent[c]
    \/ failed'[c] # failed[c]

\* every registered websocket, every target of a send and every websocket
\* a broadcast reached belongs to a connection to that room's document
SentWithinRoom ==
    /\ \A d \in DOMAIN active_connections :
           \A w \in RoomSockets(active_connections, d) : document_id[w] = d
    /\ \A c \in Conns :
           /\ pc[c] = "send" => document_id[frame[c].target.websocket] = document_id[c]
           /\ \A w \in sent[c] \cup failed[c] : document_id[w] = document_id[c]

\* a step changes the registry contents of no room but the one of the
\* connection whose task takes it
OtherRoomsUntouched ==
    \A d \in DocIds :
        Room(active_connections', user_info', d) # Room(active_connections, user_info, d) =>
            \E c \in Conns : Acts(c) /\ document_id'[c] = d

\* C24: an event that originates in room R is sent only to websockets
\* registered under R, and a join, leave or failed send in R leaves the
\* registry contents of every other room unchanged.
C24_RoomIsolation ==
    /\ []SentWithinRoom
    /\ [][OtherRoomsUntouched]_vars

\* a user left one room and is still registered, and was sent events, in
\* another
C24_Witness ==
    \E c, b \in Conns :
        /\ Admitted(c) /\ Admitted(b)
        /\ document_id[c] # document_id[b]
        /\ user_id[c] = user_id[b]
        /\ Ended(c, "leave")
        /\ EntryOf(active_connections, document_id[b], user_id[b]) = b
        /\ b \in sent[b]
====
